---- MODULE Spec2Model ----
(***************************************************************************)
(* A model of the cloth simulation of src/src/lib.rs (Cloth, Point, Stick) *)
(* with the vector arithmetic of src/src/math.rs and the frame loop of     *)
(* src/src/main.rs.                                                        *)
(*                                                                         *)
(* Numbers.  An f64 is modelled as an integer number of length units; a    *)
(* product with a fraction, a quotient and a square root are rounded to    *)
(* the nearest integer.  A comparison against a square root is decided     *)
(* exactly, on the squares.  A Vector2 is a record [x, y, nan]: the only   *)
(* non-finite value the code produces within the bounds is the NaN of a    *)
(* correction between two coincident points (0 * inf, or 0/0), which       *)
(* fills both components at once and is absorbing under + and -.  dt is    *)
(* counted in tenths of a second.                                          *)
(*                                                                         *)
(* References.  Rc<RefCell<Stick>> is an index into `heap`, the sticks in  *)
(* creation order (a stick removed from Cloth.sticks lives on while a      *)
(* point's slot refers to it); Rc<RefCell<Point>> is an index into         *)
(* `points`.  None is 0.  Sequences are 1-based: the point of grid cell    *)
(* (x, y) is points[x + y*width + 1].                                      *)
(***************************************************************************)
EXTENDS Integers, Sequences, FiniteSets

\* ------------------------------------------------------------------ bounds

\* Cloths are simulated for every width in 1..MaxWidth and height in
\* 1..MaxHeight, and constructed for one more of each.
MaxWidth == 3
MaxHeight == 3
\* Cloth::update is called at most MaxUpdates times in a behaviour.
MaxUpdates == 2
\* Spacings of the construction study are 0..MaxSpacing (and -1).
MaxSpacing == 2
\* Displacements (in both axes) of the constraint study are multiples of
\* 22 up to 22*MaxDisplace, and 25 and 111.
MaxDisplace == 5

\* ------------------------------------------------------- program constants

GRAVITY_Y == 981
CURSOR_RADIUS == 10
\* Cloth.drag = 0.05, in hundredths.
DRAG == 5
\* The factor of the dragging force.
DRAG_FORCE == 10000

None == 0

\* --------------------------------------------------------------- Vector2

Vec(x, y) == [x |-> x, y |-> y, nan |-> FALSE]

NaN == [x |-> 0, y |-> 0, nan |-> TRUE]

ZERO == Vec(0, 0)

Add(a, b) == IF a.nan \/ b.nan THEN NaN ELSE Vec(a.x + b.x, a.y + b.y)

Sub(a, b) == IF a.nan \/ b.nan THEN NaN ELSE Vec(a.x - b.x, a.y - b.y)

\* a / b for b > 0, rounded to the nearest integer (ties away from zero).
RoundDiv(a, b) ==
  IF a >= 0 THEN (2 * a + b) \div (2 * b) ELSE -((2 * (-a) + b) \div (2 * b))

\* v * (num / den), den > 0.
Mul(v, num, den) ==
  IF v.nan THEN NaN ELSE Vec(RoundDiv(v.x * num, den), RoundDiv(v.y * num, den))

\* Of a vector that is not NaN.
MagnitudeSquared(v) == v.x * v.x + v.y * v.y

RECURSIVE SqrtSearch(_, _, _)
\* The largest r in lo..hi with r*r <= n, given lo*lo <= n < (hi+1)*(hi+1).
SqrtSearch(n, lo, hi) ==
  IF lo = hi THEN lo
  ELSE LET mid == (lo + hi + 1) \div 2
       IN IF mid * mid <= n THEN SqrtSearch(n, mid, hi)
          ELSE SqrtSearch(n, lo, mid - 1)

\* sqrt(n) rounded to the nearest integer, 0 <= n < 2^31.
Sqrt(n) ==
  LET r == SqrtSearch(n, 0, 46340)
  IN IF n - r * r > r THEN r + 1 ELSE r

\* Of a vector that is not NaN.
Magnitude(v) == Sqrt(MagnitudeSquared(v))

\* ----------------------------------------------------------------- Point

PointNew(position) ==
  [position |-> position, prev_position |-> position,
   initial_position |-> position, sticks |-> <<None, None>>, pinned |-> FALSE]

\* AddStick, were a slot written only while it is empty.
AddStickIfEmpty(point, stick, add_index) ==
  IF point.sticks[add_index + 1] = None
  THEN [point EXCEPT !.sticks[add_index + 1] = stick] ELSE point

\* add_index is 0 or 1.
AddStick(point, stick, add_index) ==
  [point EXCEPT !.sticks[add_index + 1] = stick]

Pin(point) == [point EXCEPT !.pinned = TRUE]

\* ----------------------------------------------------------------- Stick

\* StickNewAsserts, were the assertion missing.
StickNewAssertsNothing(elasticity) == TRUE

\* The assertion of Stick::new.
StickNewAsserts(elasticity) == elasticity >= 0

StickNew(p1, p2, length, elasticity) ==
  [p1 |-> p1, p2 |-> p2, length |-> length, elasticity |-> elasticity,
   selected |-> FALSE, broken |-> FALSE]

\* ------------------------------------------------------------ Cloth::new

\* The construction's state: the points and sticks pushed so far, the
\* sticks allocated so far, and whether an assertion has failed.
NewStart == [points |-> <<>>, sticks |-> <<>>, heap |-> <<>>, panicked |-> FALSE]

\* The `if x != 0` block: a stick from the new point to the last point pushed.
NewLeft(st, point, a, x) ==
  IF x = 0 \/ st.panicked THEN [st |-> st, point |-> point]
  ELSE IF ~StickNewAsserts(a.elasticity)
  THEN [st |-> [st EXCEPT !.panicked = TRUE], point |-> point]
  ELSE LET left_point == Len(st.points)
           stick == Len(st.heap) + 1
       IN [st |-> [st EXCEPT
                     !.heap = Append(@, StickNew(Len(st.points) + 1, left_point,
                                                 a.spacing, a.elasticity)),
                     !.points[left_point] = AddStick(@, stick, 0),
                     !.sticks = Append(@, stick)],
           point |-> AddStick(point, stick, 0)]

\* The `if y != 0` block: a stick from the new point to the point above it.
NewUp(r, a, x, y) ==
  IF y = 0 \/ r.st.panicked THEN r
  ELSE IF ~StickNewAsserts(a.elasticity)
  THEN [r EXCEPT !.st.panicked = TRUE]
  ELSE LET up_point == x + (y - 1) * a.width + 1
           stick == Len(r.st.heap) + 1
       IN [st |-> [r.st EXCEPT
                     !.heap = Append(@, StickNew(Len(r.st.points) + 1, up_point,
                                                 a.spacing, a.elasticity)),
                     !.points[up_point] = AddStick(@, stick, 1),
                     !.sticks = Append(@, stick)],
           point |-> AddStick(r.point, stick, 1)]

\* NewPin, were the whole top row pinned.
NewPinTopRow(point, x, y) == IF y = 0 THEN Pin(point) ELSE point

\* The `if y == 0 && x % 2 == 0` block.
NewPin(point, x, y) == IF y = 0 /\ x % 2 = 0 THEN Pin(point) ELSE point

\* One iteration of the inner loop, for the grid cell (x, y).
NewCell(st, a, x, y) ==
  LET point == PointNew(Vec(a.start_x + x * a.spacing, a.start_y + y * a.spacing))
      r == NewUp(NewLeft(st, point, a, x), a, x, y)
  IN IF r.st.panicked THEN r.st
     ELSE [r.st EXCEPT !.points = Append(@, NewPin(r.point, x, y))]

RECURSIVE NewLoop(_, _, _)
\* The two loops, y outer and x inner, from the k-th cell on.
NewLoop(st, a, k) ==
  IF k >= a.width * a.height \/ st.panicked THEN st
  ELSE NewLoop(NewCell(st, a, k % a.width, k \div a.width), a, k + 1)

ClothNew(a) == NewLoop(NewStart, a, 0)

\* --------------------------------------------------------------- state

VARIABLES
  pc,                  \* "new", "idle", "select", "integrate", "sticks", "remove", "panicked"
  args,                \* the arguments of Cloth::new
  points,              \* Cloth.points
  sticks,              \* Cloth.sticks: references into heap
  heap,                \* every Stick allocated, in creation order
  elasticity,          \* Cloth.elasticity
  prev_mouse_position, \* State.prev_mouse_position of main.rs
  updates,             \* calls of Cloth::update that have returned
  dt,                  \* update's argument, in tenths of a second
  mouse,               \* update's argument: [position, left, right]
  idx,                 \* the running loop's position, from 1
  selected,            \* the local `selected` of the point loop
  force,               \* the local `force` of the point loop
  to_remove,           \* the local `to_remove` of the stick loop (0-based indices)
  torn,                \* observation: the points break_sticks was called on in this update
  marked,              \* observation: per stick, how and in which update broken became true
  probe                \* observation: what the last Stick::update saw

vars == <<pc, args, points, sticks, heap, elasticity, prev_mouse_position, updates,
          dt, mouse, idx, selected, force, to_remove, torn, marked, probe>>

cloth_vars == <<points, sticks, heap, elasticity>>

local_vars == <<dt, mouse, idx, selected, force, to_remove>>

observation_vars == <<torn, marked, probe>>

NoMouse == [position |-> ZERO, left |-> FALSE, right |-> FALSE]

NoMark == [by |-> "none", at |-> 0]

NoProbe == [stick |-> None, diff |-> ZERO, was_broken |-> FALSE]

\* ------------------------------------------------------------ the inputs

\* CLOTH_SPACING of main.rs.
CLOTH_SPACING == 10

\* The cloths of the simulation study: main.rs's spacing and elasticity 10.0,
\* and the elasticities 0 (any stretch breaks) and -1 (the assertion).
SimArgs ==
  [width : 1..MaxWidth, height : 1..MaxHeight, spacing : {CLOTH_SPACING},
   start_x : {0}, start_y : {0}, elasticity : {-1, 0, 10}]

\* The cloths of the construction study.
NewArgs ==
  [width : 1..(MaxWidth + 1), height : 1..(MaxHeight + 1), spacing : -1..MaxSpacing,
   start_x : {-3, 0}, start_y : {0, 7}, elasticity : {-1, 0, 1, 10}]

\* Frame times, in tenths of a second.
Dts == {1, 2}

\* Pointer positions: far from the cloth, within the radius of point (0, 0)
\* alone, and at point (1, 1) (its neighbours at exactly the radius).
MousePositions == {Vec(-50, -50), Vec(-5, -5), Vec(10, 10)}

InitWith(a) ==
  /\ pc = "new"
  /\ args = a
  /\ points = <<>>
  /\ sticks = <<>>
  /\ heap = <<>>
  /\ elasticity = 0
  /\ prev_mouse_position = ZERO
  /\ updates = 0
  /\ dt = 0
  /\ mouse = NoMouse
  /\ idx = 0
  /\ selected = FALSE
  /\ force = ZERO
  /\ to_remove = <<>>
  /\ torn = {}
  /\ marked = <<>>
  /\ probe = NoProbe

Init == \E a \in SimArgs : InitWith(a)

InitNew == \E a \in NewArgs : InitWith(a)

\* ------------------------------------------------------------ Cloth::new

NewReturns ==
  /\ pc = "new"
  /\ ~ClothNew(args).panicked
  /\ LET st == ClothNew(args)
     IN /\ points' = st.points
        /\ sticks' = st.sticks
        /\ heap' = st.heap
        /\ marked' = [s \in 1..Len(st.heap) |-> NoMark]
  /\ elasticity' = args.elasticity
  /\ pc' = "idle"
  /\ UNCHANGED <<args, prev_mouse_position, updates, local_vars, torn, probe>>

NewPanics ==
  /\ pc = "new"
  /\ ClothNew(args).panicked
  /\ pc' = "panicked"
  /\ UNCHANGED <<args, cloth_vars, prev_mouse_position, updates, local_vars,
                 observation_vars>>

New == NewReturns \/ NewPanics

\* --------------------------------------------------------- Cloth::update

\* main.rs's update calls Cloth::update with the frame's time and pointer.
BeginUpdate ==
  /\ pc = "idle"
  /\ updates < MaxUpdates
  /\ \E d \in Dts, position \in MousePositions, left \in BOOLEAN, right \in BOOLEAN :
       /\ dt' = d
       /\ mouse' = [position |-> position, left |-> left, right |-> right]
  /\ idx' = 1
  /\ pc' = IF Len(points) > 0 THEN "select" ELSE "sticks"
  /\ torn' = {}
  /\ UNCHANGED <<args, cloth_vars, prev_mouse_position, updates, selected, force,
                 to_remove, marked, probe>>

\* `selected` of the point loop: within the pointer's radius (false of a NaN).
Selected(point, m) ==
  LET d == Sub(point.position, m.position)
  IN ~d.nan /\ MagnitudeSquared(d) <= CURSOR_RADIUS * CURSOR_RADIUS

\* The branch of the point loop that applies the dragging force.
Drags(sel, m) == sel /\ m.left

\* Tears, were the branch an `if` of its own instead of an `else if`.
TearsLeftToo(sel, m) == sel /\ m.right

\* The branch of the point loop that calls break_sticks.
Tears(sel, m) == sel /\ ~m.left /\ m.right

\* f64::clamp asserts min <= max.
ClampAsserts(min, max) == min <= max

Clamp(v, min, max) == IF v < min THEN min ELSE IF v > max THEN max ELSE v

\* `force` after the dragging branch.
DragForce(m, prev, e) ==
  LET diff == Sub(m.position, prev)
  IN Vec(Clamp(diff.x, -e, e) * DRAG_FORCE,
         GRAVITY_Y + Clamp(diff.y, -e, e) * DRAG_FORCE)

\* BreakSticks, were slot 0 emptied a second time instead of slot 1.
BreakSticksSlot0Twice(pts, hp, i) ==
  LET s0 == pts[i].sticks[1]
      s1 == pts[i].sticks[2]
      hp0 == IF s0 # None THEN [hp EXCEPT ![s0].broken = TRUE] ELSE hp
      pts0 == IF s0 # None THEN [pts EXCEPT ![i].sticks[1] = None] ELSE pts
      hp1 == IF s1 # None THEN [hp0 EXCEPT ![s1].broken = TRUE] ELSE hp0
      pts1 == IF s1 # None THEN [pts0 EXCEPT ![i].sticks[1] = None] ELSE pts0
  IN [points |-> pts1, heap |-> hp1]

\* Point::break_sticks on points[i]: the points and the sticks after it.
BreakSticks(pts, hp, i) ==
  LET s0 == pts[i].sticks[1]
      s1 == pts[i].sticks[2]
      hp0 == IF s0 # None THEN [hp EXCEPT ![s0].broken = TRUE] ELSE hp
      pts0 == IF s0 # None THEN [pts EXCEPT ![i].sticks[1] = None] ELSE pts
      hp1 == IF s1 # None THEN [hp0 EXCEPT ![s1].broken = TRUE] ELSE hp0
      pts1 == IF s1 # None THEN [pts0 EXCEPT ![i].sticks[2] = None] ELSE pts0
  IN [points |-> pts1, heap |-> hp1]

\* The observation of a stick's flag becoming true.
Mark(old, new, by) ==
  [s \in DOMAIN marked |->
     IF ~old[s].broken /\ new[s].broken
     THEN [by |-> by, at |-> updates + 1] ELSE marked[s]]

\* The point loop's body up to the call of Point::update.
SelectReturns ==
  /\ pc = "select"
  /\ LET sel == Selected(points[idx], mouse)
     IN /\ Drags(sel, mouse) => ClampAsserts(-elasticity, elasticity)
        /\ selected' = sel
        /\ force' = IF Drags(sel, mouse)
                    THEN DragForce(mouse, prev_mouse_position, elasticity)
                    ELSE Vec(0, GRAVITY_Y)
        /\ IF Tears(sel, mouse)
           THEN LET r == BreakSticks(points, heap, idx)
                IN /\ points' = r.points
                   /\ heap' = r.heap
                   /\ torn' = torn \union {idx}
                   /\ marked' = Mark(heap, r.heap, "tear")
           ELSE UNCHANGED <<points, heap, torn, marked>>
  /\ pc' = "integrate"
  /\ UNCHANGED <<args, sticks, elasticity, prev_mouse_position, updates, dt, mouse,
                 idx, to_remove, probe>>

\* The dragging branch with a negative elasticity: clamp's assertion fails.
SelectPanics ==
  /\ pc = "select"
  /\ Drags(Selected(points[idx], mouse), mouse)
  /\ ~ClampAsserts(-elasticity, elasticity)
  /\ pc' = "panicked"
  /\ UNCHANGED <<args, cloth_vars, prev_mouse_position, updates, local_vars,
                 observation_vars>>

Select == SelectReturns \/ SelectPanics

\* The highlight loop of Point::update.
Highlight(hp, point, sel) ==
  [s \in DOMAIN hp |->
     IF s = point.sticks[1] \/ s = point.sticks[2]
     THEN [hp[s] EXCEPT !.selected = sel] ELSE hp[s]]

\* Point::update on the point itself; d is dt in tenths of a second.
PointUpdate(point, d, acceleration) ==
  IF point.pinned
  THEN [point EXCEPT !.position = point.initial_position]
  ELSE LET new_position ==
             Add(Add(point.position,
                     Mul(Sub(point.position, point.prev_position), 100 - DRAG, 100)),
                 Mul(acceleration, (100 - DRAG) * d * d, 100 * 100))
       IN [point EXCEPT !.prev_position = point.position,
                        !.position = new_position]

\* The call of Point::update that ends the point loop's body.
Integrate ==
  /\ pc = "integrate"
  /\ heap' = Highlight(heap, points[idx], selected)
  /\ points' = [points EXCEPT ![idx] = PointUpdate(@, dt, force)]
  /\ IF idx < Len(points)
     THEN /\ idx' = idx + 1
          /\ pc' = "select"
          /\ UNCHANGED to_remove
     ELSE /\ idx' = 1
          /\ pc' = IF Len(sticks) > 0 THEN "sticks" ELSE "remove"
          /\ to_remove' = <<>>
  /\ UNCHANGED <<args, sticks, elasticity, prev_mouse_position, updates, dt, mouse,
                 selected, force, observation_vars>>

\* Stretched, were the comparison >=.
StretchedOrAtLimit(diff, limit) ==
  /\ ~diff.nan
  /\ limit <= 0 \/ MagnitudeSquared(diff) >= limit * limit

\* dist > limit of Stick::update, for diff = p1.position - p2.position:
\* false of a NaN; decided on the squares, as sqrt is monotone.
Stretched(diff, limit) ==
  /\ ~diff.nan
  /\ limit < 0 \/ MagnitudeSquared(diff) > limit * limit

\* `offset` of Stick::update: diff * ((length - dist) / dist) * 0.5.  With
\* dist = 0 the factor is infinite (or 0/0) and the product with diff is NaN.
Offset(diff, length) ==
  IF diff.nan THEN NaN
  ELSE LET dist == Magnitude(diff)
       IN IF dist = 0 THEN NaN
          ELSE Vec(RoundDiv(diff.x * (length - dist), 2 * dist),
                   RoundDiv(diff.y * (length - dist), 2 * dist))

\* Stick::update on heap[s]: the points and the sticks after it.
StickUpdate(pts, hp, s) ==
  LET st == hp[s]
      diff == Sub(pts[st.p1].position, pts[st.p2].position)
      offset == Offset(diff, st.length)
      moved1 == [pts EXCEPT ![st.p1].position = Add(@, offset)]
      moved2 == [moved1 EXCEPT ![st.p2].position = Sub(@, offset)]
  IN [points |-> moved2,
      heap |-> IF Stretched(diff, st.length * (1 + st.elasticity))
               THEN [hp EXCEPT ![s].broken = TRUE] ELSE hp]

\* `to_remove` after the stick loop's test of the stick at 0-based index i.
Collect(rm, hp, s, i) == IF hp[s].broken THEN Append(rm, i) ELSE rm

\* The stick loop's body.
StickStep ==
  /\ pc = "sticks"
  /\ LET s == sticks[idx]
         r == StickUpdate(points, heap, s)
     IN /\ to_remove' = Collect(to_remove, heap, s, idx - 1)
        /\ points' = r.points
        /\ heap' = r.heap
        /\ marked' = Mark(heap, r.heap, "stretch")
        /\ probe' = [stick |-> s,
                     diff |-> Sub(points[heap[s].p1].position,
                                  points[heap[s].p2].position),
                     was_broken |-> heap[s].broken]
  /\ IF idx < Len(sticks)
     THEN idx' = idx + 1 /\ pc' = "sticks"
     ELSE idx' = 1 /\ pc' = "remove"
  /\ UNCHANGED <<args, sticks, elasticity, prev_mouse_position, updates, dt, mouse,
                 selected, force, torn>>

\* Vec::remove(i), i a 0-based index of list.
Remove(list, i) == SubSeq(list, 1, i) \o SubSeq(list, i + 2, Len(list))

RECURSIVE RemoveFrom(_, _, _)
\* Cloth::remove_sticks's loop from the k-th index of `indices` down.
RemoveFrom(list, indices, k) ==
  IF k = 0 THEN list ELSE RemoveFrom(Remove(list, indices[k]), indices, k - 1)

RECURSIVE RemoveUpFrom(_, _, _)
\* The loop of RemoveSticksAscending from the k-th index of `indices` up,
\* ending at an index past the list's end.
RemoveUpFrom(list, indices, k) ==
  IF k > Len(indices) \/ indices[k] >= Len(list) THEN list
  ELSE RemoveUpFrom(Remove(list, indices[k]), indices, k + 1)

\* RemoveSticks, were the indices taken in ascending order.
RemoveSticksAscending(list, indices) == RemoveUpFrom(list, indices, 1)

RemoveSticks(list, indices) == RemoveFrom(list, indices, Len(indices))

\* The call of remove_sticks, update's return, and main.rs's update keeping
\* the pointer's position for the next frame.
RemoveStep ==
  /\ pc = "remove"
  /\ sticks' = RemoveSticks(sticks, to_remove)
  /\ prev_mouse_position' = mouse.position
  /\ updates' = updates + 1
  /\ pc' = "idle"
  /\ dt' = 0
  /\ mouse' = NoMouse
  /\ idx' = 0
  /\ selected' = FALSE
  /\ force' = ZERO
  /\ to_remove' = <<>>
  /\ UNCHANGED <<args, points, heap, elasticity, observation_vars>>

Next == New \/ BeginUpdate \/ Select \/ Integrate \/ StickStep \/ RemoveStep

Spec == Init /\ [][Next]_vars

NextNew == New

SpecNew == InitNew /\ [][NextNew]_vars

\* ------------------------------------------- the constraint on its own

\* Where the free point of the 2-point cloth is displaced to, per axis.
Displacements == {22 * k : k \in 0..MaxDisplace} \union {25, 111}

\* The 2-point cloth of one row whose point[1] has been displaced to
\* `position` and whose stick's flag is `broken`, at the stick loop's start.
InitStick ==
  \E e \in {0, 1, 10}, x \in Displacements, y \in Displacements, broken \in BOOLEAN :
    LET a == [width |-> 2, height |-> 1, spacing |-> CLOTH_SPACING,
              start_x |-> 0, start_y |-> 0, elasticity |-> e]
        st == ClothNew(a)
    IN /\ pc = "sticks"
       /\ args = a
       /\ points = [st.points EXCEPT ![2].position = Vec(x, y),
                                     ![2].prev_position = Vec(x, y)]
       /\ sticks = st.sticks
       /\ heap = [st.heap EXCEPT ![1].broken = broken]
       /\ elasticity = e
       /\ prev_mouse_position = ZERO
       /\ updates = 0
       /\ dt = 1
       /\ mouse = NoMouse
       /\ idx = 1
       /\ selected = FALSE
       /\ force = Vec(0, GRAVITY_Y)
       /\ to_remove = <<>>
       /\ torn = {}
       /\ marked = <<NoMark>>
       /\ probe = NoProbe

NextStick == StickStep \/ RemoveStep

SpecStick == InitStick /\ [][NextStick]_vars

\* ------------------------------------------------------------ vocabulary

\* The grid cell of points[i].
CellX(i) == (i - 1) % args.width

CellY(i) == (i - 1) \div args.width

\* The sticks allocated.
Sticks == DOMAIN heap

\* The sticks of Cloth.sticks.
Listed == {sticks[j] : j \in 1..Len(sticks)}

\* The sticks that join points[i] and points[j].
Joining(i, j) == {s \in Sticks : {heap[s].p1, heap[s].p2} = {i, j}}

\* Two vectors are equal as f64 pairs are: a NaN equals nothing.
SameVec(a, b) == ~a.nan /\ ~b.nan /\ a.x = b.x /\ a.y = b.y

\* b is a with some elements left out, the others in their order.
RECURSIVE IsSubSeq(_, _)
IsSubSeq(b, a) ==
  IF b = <<>> THEN TRUE
  ELSE IF a = <<>> THEN FALSE
  ELSE IF Head(a) = Head(b) THEN IsSubSeq(Tail(b), Tail(a))
  ELSE IsSubSeq(b, Tail(a))

\* ---------------------------------------------------------------- claims

\* C1: whenever a call of Cloth::update has returned, every pinned point's
\* position equals its initial_position exactly.
C1_PinnedAtAnchor ==
  (pc = "idle" /\ updates > 0) =>
    \A i \in 1..Len(points) :
      points[i].pinned => SameVec(points[i].position, points[i].initial_position)

\* C2: a stick the constraint pass of an update marks broken is absent from
\* Cloth.sticks when that update returns, so that after any update no stick
\* of the list has broken = true.
C2_BrokenGoneOnReturn ==
  pc = "idle" =>
    /\ \A s \in Sticks :
         (marked[s].by = "stretch" /\ marked[s].at = updates) => s \notin Listed
    /\ \A s \in Listed : ~heap[s].broken

\* C3: break_sticks on a point sets broken on exactly the sticks of that
\* point's two slots and empties both slots; no other point (the far endpoint
\* of a torn stick included), no other stick's flag, no other field and no
\* position changes.
C3_TearEffect ==
  [][(pc = "select" /\ idx \in torn') =>
       LET held == {points[idx].sticks[1], points[idx].sticks[2]} \ {None}
       IN /\ \A s \in Sticks :
               heap'[s] = IF s \in held THEN [heap[s] EXCEPT !.broken = TRUE]
                          ELSE heap[s]
          /\ points'[idx] = [points[idx] EXCEPT !.sticks = <<None, None>>]
          /\ \A j \in 1..Len(points) : j # idx => points'[j] = points[j]
          /\ Len(points') = Len(points)
          /\ DOMAIN heap' = DOMAIN heap
          /\ sticks' = sticks]_vars

\* C3's case: a point has been torn, a stick it held is broken, and the
\* stick's far endpoint still holds it in a slot.
C3_Witness ==
  /\ pc = "integrate"
  /\ idx \in torn
  /\ \E s \in Sticks, j \in 1..Len(points) :
       /\ j # idx
       /\ idx \in {heap[s].p1, heap[s].p2}
       /\ heap[s].broken
       /\ marked[s] = [by |-> "tear", at |-> updates + 1]
       /\ s \in {points[j].sticks[1], points[j].sticks[2]}

\* C4: the call of remove_sticks shortens Cloth.sticks by exactly the number
\* of its sticks whose broken flag is true at that time, and keeps the other
\* sticks in their order.
C4_SweepRemovesTheBroken ==
  [][pc = "remove" =>
       /\ Len(sticks') =
            Len(sticks) - Cardinality({j \in 1..Len(sticks) : heap[sticks[j]].broken})
       /\ IsSubSeq(sticks', sticks)]_vars

\* C5: Stick::update leaves the stick broken if and only if it was broken or
\* the distance of its endpoints at the start of the call is strictly greater
\* than length * (1 + elasticity); with length 10 and elasticity 10 an
\* unbroken stick at distance 25 or 110 stays unbroken and one at a distance
\* above 110 becomes broken.
C5_BreaksIffStretched ==
  [][pc = "sticks" =>
       LET s == sticks[idx]
           d == Sub(points[heap[s].p1].position, points[heap[s].p2].position)
           limit == heap[s].length * (1 + heap[s].elasticity)
           far == ~d.nan /\ d.x * d.x + d.y * d.y > limit * limit
       IN /\ heap'[s].broken <=> (heap[s].broken \/ far)
          /\ (heap[s].length = 10 /\ heap[s].elasticity = 10 /\ ~heap[s].broken /\ ~d.nan) =>
               /\ d.x * d.x + d.y * d.y \in {625, 12100} => ~heap'[s].broken
               /\ d.x * d.x + d.y * d.y > 12100 => heap'[s].broken]_vars

\* C5's case: an unbroken stick of length 10 and elasticity 10 has been
\* updated at a distance of exactly 110 and is still unbroken.
C5_Witness ==
  /\ pc = "remove"
  /\ probe.stick # None
  /\ ~probe.was_broken
  /\ ~probe.diff.nan
  /\ MagnitudeSquared(probe.diff) = 12100
  /\ heap[probe.stick].length = 10
  /\ heap[probe.stick].elasticity = 10
  /\ ~heap[probe.stick].broken

\* C6: a stick is never constructed with a negative elasticity, nor with
\* another elasticity than the one asked for: Cloth::new with a negative
\* elasticity fails on its first stick and returns no cloth, and returns a
\* cloth only when the grid needs no stick.
C6_NegativeElasticityFails ==
  /\ \A s \in Sticks : heap[s].elasticity >= 0 /\ heap[s].elasticity = args.elasticity
  /\ (pc = "idle" /\ args.elasticity < 0) => (sticks = <<>> /\ heap = <<>>)
  /\ (pc # "new" /\ args.elasticity < 0 /\ args.width * args.height > 1) =>
       (pc = "panicked" /\ points = <<>> /\ sticks = <<>>)

\* C6's case: Cloth::new was called with a negative elasticity for a grid
\* with a stick, and failed.
C6_Witness ==
  pc = "panicked" /\ args.elasticity < 0 /\ args.width > 1 /\ args.height > 1

\* C7: the cloth Cloth::new returns has width*height points in row-major
\* order at (start_x + x*spacing, start_y + y*spacing), at rest, pinned iff
\* y = 0 and x is even, and (width-1)*height + width*(height-1) sticks, each
\* between two distinct horizontally or vertically adjacent points, of length
\* spacing, neither broken nor selected.
C7_Grid ==
  pc = "idle" =>
    /\ Len(points) = args.width * args.height
    /\ \A i \in 1..Len(points) :
         LET at == Vec(args.start_x + CellX(i) * args.spacing,
                       args.start_y + CellY(i) * args.spacing)
         IN /\ points[i].position = at
            /\ points[i].prev_position = at
            /\ points[i].initial_position = at
            /\ points[i].pinned <=> (CellY(i) = 0 /\ CellX(i) % 2 = 0)
    /\ Len(sticks) = (args.width - 1) * args.height + args.width * (args.height - 1)
    /\ Cardinality(Listed) = Len(sticks)
    /\ Listed = Sticks
    /\ \A s \in Listed :
         LET a == heap[s].p1
             b == heap[s].p2
         IN /\ a \in 1..Len(points) /\ b \in 1..Len(points) /\ a # b
            /\ \/ CellY(a) = CellY(b) /\ CellX(a) - CellX(b) \in {-1, 1}
               \/ CellX(a) = CellX(b) /\ CellY(a) - CellY(b) \in {-1, 1}
            /\ heap[s].length = args.spacing
            /\ ~heap[s].broken
            /\ ~heap[s].selected

\* C7's case: a cloth of several rows and columns, a pinned and an unpinned
\* point in its top row, has been returned.
C7_Witness ==
  /\ pc = "idle"
  /\ args.width > 2
  /\ args.height > 1
  /\ points[1].pinned /\ ~points[2].pinned /\ points[3].pinned
  /\ Len(sticks) > 0

\* The first update of a cloth is tearing points[idx].
FreshTear == pc = "select" /\ updates = 0 /\ idx \in torn'

\* C8 as claimed: on a fresh cloth a tear marks only sticks that join the
\* point to its left or its up neighbour (the sticks whose p1 it is), all of
\* them, and none that joins it to its right or down neighbour.
C8_TearBreaksLeftAndUp ==
  [][FreshTear =>
       \A s \in Sticks :
         /\ heap[s].p1 = idx => heap'[s].broken
         /\ heap[s].p2 = idx => heap'[s].broken = heap[s].broken]_vars

\* The sticks a fresh cloth's points[i] holds: in slot 0 the stick to its
\* right neighbour (to its left one in the last column), in slot 1 the stick
\* to its down neighbour (to its up one in the last row).
FreshlyHeld(i) ==
  (IF CellX(i) < args.width - 1 THEN Joining(i, i + 1)
   ELSE IF CellX(i) > 0 THEN Joining(i, i - 1) ELSE {})
  \union
  (IF CellY(i) < args.height - 1 THEN Joining(i, i + args.width)
   ELSE IF CellY(i) > 0 THEN Joining(i, i - args.width) ELSE {})

\* C8 as amended: on a fresh cloth a tear marks the sticks of the point's
\* slots, which join it to its right neighbour (its left one in the last
\* column) and its down neighbour (its up one in the last row), and changes
\* no other stick's flag.
C8_TearBreaksRightAndDown ==
  [][FreshTear =>
       \A s \in Sticks :
         /\ s \in FreshlyHeld(idx) => heap'[s].broken
         /\ s \notin FreshlyHeld(idx) => heap'[s].broken = heap[s].broken]_vars

\* C8's case: in a cloth's first update a point with a right and a down
\* neighbour has been torn, and the sticks to them are broken.
C8_Witness ==
  /\ pc = "integrate"
  /\ updates = 0
  /\ idx \in torn
  /\ CellX(idx) < args.width - 1
  /\ CellY(idx) < args.height - 1
  /\ \A s \in Joining(idx, idx + 1) \union Joining(idx, idx + args.width) :
       heap[s].broken /\ marked[s].by = "tear"
  /\ Joining(idx, idx + 1) # {}
  /\ Joining(idx, idx + args.width) # {}

\* C9: the point loop calls break_sticks on a point iff the point is within
\* CURSOR_RADIUS of the pointer (squared distance <= 100), the right button
\* is down and the left button is not; otherwise the loop's body up to
\* Point::update changes no stick's flag and no slot.
C9_TearsIffRightOnly ==
  [][pc = "select" =>
       LET p == points[idx].position
           m == mouse.position
           near == ~p.nan /\ (p.x - m.x) * (p.x - m.x) + (p.y - m.y) * (p.y - m.y) <= 100
           tears == near /\ mouse.right /\ ~mouse.left
       IN /\ idx \in torn' <=> tears
          /\ ~tears =>
               /\ \A s \in Sticks : heap'[s].broken = heap[s].broken
               /\ \A j \in 1..Len(points) : points'[j].sticks = points[j].sticks]_vars

\* C9's case: a selected point that holds a stick has been passed over with
\* both buttons down, and was not torn.
C9_Witness ==
  /\ pc = "integrate"
  /\ selected
  /\ mouse.left /\ mouse.right
  /\ idx \notin torn
  /\ points[idx].sticks # <<None, None>>

\* C10: between updates, a stick of the list with broken = true was marked
\* by the stretch rule in the update that has just returned (so a torn stick
\* is gone when its update returns and a stretched one when the next
\* returns); the list only ever loses sticks, the rest keeping their order,
\* and the number of points never changes.
C10_BrokenSticksLeave ==
  /\ [](pc = "idle" =>
          \A s \in Listed :
            heap[s].broken => marked[s] = [by |-> "stretch", at |-> updates])
  /\ [][pc # "new" =>
          /\ IsSubSeq(sticks', sticks)
          /\ Len(sticks') <= Len(sticks)
          /\ Len(points') = Len(points)]_vars

\* C10's case: between updates, a stick the stretch rule marked in the
\* update before the last is gone, and so is a torn stick.
C10_Witness ==
  /\ pc = "idle"
  /\ \E s \in Sticks :
       marked[s] = [by |-> "stretch", at |-> updates - 1] /\ s \notin Listed
  /\ \E s \in Sticks : marked[s].by = "tear" /\ s \notin Listed

====
